---- MODULE Spec2Model ----
(***************************************************************************)
(* Model of the warehouse backend (src/backend/index.js): the global       *)
(* systemState, the MQTT connectivity flag, the reparto ledger, and the    *)
(* HTTP / MQTT handlers that start entrances and exits, handle the         *)
(* emergency stop and reset it.                                            *)
(*                                                                         *)
(* An async handler is a sequence of steps cut at its await points: the    *)
(* JavaScript between two awaits runs atomically (single-threaded event    *)
(* loop), each awaited database statement executes atomically in the       *)
(* database at some later moment (Db* actions), and the continuation runs  *)
(* at some moment after that.  Steps of different requests interleave.     *)
(***************************************************************************)
EXTENDS Integers, Sequences, FiniteSets, TLC

\* ------------------------------------------------------------------ bounds

\* Number of requests / QR events that can be in flight at the same time.
NumReq == 2

\* Number of requests / QR events received in a run.
MaxArrivals == 2

\* ---------------------------------------------------------- values and data

\* JavaScript null / undefined / SQL NULL for numeric values.
NULL == -1

\* An optional object that is absent (currentOperation: null, no row found).
None == [none |-> TRUE]

\* The password the server is configured with (process.env.ADMIN_PWD).
ADMIN_PWD == "secret"

\* The credentials a request body can carry: the right one, a wrong one, none.
Passwords == {"secret", "wrong", "undefined"}

\* The two sites of the model: the automated one and a simulated one.
Sites == {"Vera", "Gandia"}

\* Record ids present in the ledger at start: 1..5 at Vera, 6 at Gandia.
LedgerIds == 1..6

\* lectura (product code) of each record; a QR payload may carry it.
LecturaOf(id) == 100 + id

\* JavaScript truthiness of a numeric-or-null value: null/undefined and 0 are falsy.
Falsy(x) == x = NULL \/ x = 0

\* x || d
OrElse(x, d) == IF Falsy(x) THEN d ELSE x

\* parseInt of a value that is already an integer (or of its decimal text).
ParseInt(x) == x

\* Template-literal interpolation `${n}` of a non-negative integer: its decimal text.
Digit == <<"0", "1", "2", "3", "4", "5", "6", "7", "8", "9">>

RECURSIVE NumToString(_)
NumToString(n) ==
    IF n < 10 THEN Digit[n + 1]
    ELSE NumToString(n \div 10) \o Digit[(n % 10) + 1]

\* ------------------------------------------------------------------- state

VARIABLES
    systemState,    \* the global systemState object
    mqttConnected,  \* the gateway's connectivity flag
    reparto,        \* the ledger table: id -> row (rows can be deleted)
    req,            \* the in-flight async handlers: locals and await point
    outbox,         \* messages handed to mqttClient.publish by the last step
    resp,           \* the outcome (HTTP response) produced by the last step, or None
    emergencyRun,   \* consecutive emergency-stop messages just handled (0, 1, 2 = two or more)
    opStarts,       \* operations started since currentOperation was last empty (0, 1, 2 = two or more)
    assigned,       \* <<site, slot>> pairs returned by successful entrances since the last exit
    dupAssigned,    \* a successful entrance returned a pair already in `assigned`
    arrivals,       \* requests and QR messages received so far
    running         \* the server process is alive

vars == <<systemState, mqttConnected, reparto, req, outbox, resp,
          emergencyRun, opStarts, assigned, dupAssigned, arrivals, running>>

Reqs == 1..NumReq

\* ------------------------------------------------------------------ ledger

\* A row of reparto as /api/enviar inserts it: no location, no receipt timestamp.
BaseRow(id) ==
    [id |-> id,
     almacen |-> IF id <= 5 THEN "Vera" ELSE "Gandia",
     lectura |-> LecturaOf(id),
     cantidad |-> IF id = 1 THEN 12 ELSE IF id = 2 THEN NULL ELSE 7,
     location |-> NULL,
     timestamp_recepcion |-> NULL]

\* The value NOW() gives: some non-null time (the model does not tell times apart).
NOW == 1

\* Slot layouts the ledger can have been brought to by earlier entrances and exits:
\* nothing stored at Vera; slots 2 and 4 taken; slots 1..3 taken; all five taken.
Layouts ==
    { [i \in LedgerIds |-> IF i = 6 THEN 1 ELSE NULL],
      [i \in LedgerIds |-> IF i = 1 THEN 2 ELSE IF i = 4 THEN 4 ELSE NULL],
      [i \in LedgerIds |-> IF i \in 3..5 THEN i - 2 ELSE IF i = 6 THEN 1 ELSE NULL],
      [i \in LedgerIds |-> IF i <= 5 THEN i ELSE NULL] }

StoredRow(id, loc) ==
    IF loc = NULL THEN BaseRow(id)
    ELSE [BaseRow(id) EXCEPT !.location = loc, !.timestamp_recepcion = NOW]

\* SELECT ... FROM reparto WHERE id = $1 (oneOrNone); a null parameter matches no row.
SelectById(id) ==
    IF id \in DOMAIN reparto THEN reparto[id] ELSE None

\* SELECT ... FROM reparto WHERE lectura = $1 (oneOrNone)
SelectByLectura(lectura) ==
    LET hits == {i \in DOMAIN reparto : reparto[i].lectura = lectura}
    IN IF hits = {} THEN None
       ELSE reparto[CHOOSE i \in hits : TRUE]

\* Faulty variant of UsedLocationSet: the almacen filter is missing.
UsedLocationSetAllSites(almacen) ==
    {ParseInt(reparto[i].location) : i \in {j \in DOMAIN reparto : reparto[j].location # NULL}}

\* SELECT location FROM reparto WHERE location IS NOT NULL AND almacen = $1,
\* then new Set(rows.map(row => parseInt(row.location)))
UsedLocationSet(almacen) ==
    {ParseInt(reparto[i].location) :
        i \in {j \in DOMAIN reparto : reparto[j].location # NULL /\ reparto[j].almacen = almacen}}

\* Faulty variant of UpdateLocation: rows of simulated sites are not written.
UpdateLocationRealSiteOnly(field, value, loc) ==
    [i \in DOMAIN reparto |->
        IF (IF field = "id" THEN reparto[i].id ELSE reparto[i].lectura) = value
           /\ reparto[i].almacen = "Vera"
        THEN [reparto[i] EXCEPT !.location = loc, !.timestamp_recepcion = NOW]
        ELSE reparto[i]]

\* UPDATE reparto SET location = $1, timestamp_recepcion = NOW() WHERE <field> = $2
\* (no matching row: nothing is updated and the statement still succeeds)
UpdateLocation(field, value, loc) ==
    [i \in DOMAIN reparto |->
        IF (IF field = "id" THEN reparto[i].id ELSE reparto[i].lectura) = value
        THEN [reparto[i] EXCEPT !.location = loc, !.timestamp_recepcion = NOW]
        ELSE reparto[i]]

\* Faulty variant of DeleteRow: the row is kept and only its location is cleared.
DeleteRowKeepsRecord(id) ==
    [i \in DOMAIN reparto |->
        IF i = id THEN [reparto[i] EXCEPT !.location = NULL] ELSE reparto[i]]

\* DELETE FROM reparto WHERE id = $1
DeleteRow(id) == [i \in DOMAIN reparto \ {id} |-> reparto[i]]

\* ------------------------------------------------------------- the gateway

\* Faulty variant of PublishMqttMessage: the connectivity flag is not looked at.
PublishMqttMessageUnchecked(topic, message, almacen) ==
    IF almacen # "undefined" /\ almacen # "Vera" THEN [ok |-> TRUE, sent |-> <<>>]
    ELSE [ok |-> TRUE, sent |-> <<[topic |-> topic, message |-> message]>>]

\* publishMqttMessage(topic, message, almacen): what it returns and what it hands
\* to mqttClient.publish.  No caller passes almacen ("undefined").
PublishMqttMessage(topic, message, almacen) ==
    IF almacen # "undefined" /\ almacen # "Vera" THEN [ok |-> TRUE, sent |-> <<>>]
    ELSE IF ~mqttConnected THEN [ok |-> FALSE, sent |-> <<>>]
    ELSE [ok |-> TRUE, sent |-> <<[topic |-> topic, message |-> message]>>]

\* Faulty variant of IsRealSite: every site is treated as automated.
IsRealSiteAlways(almacen) == TRUE

\* The site rule every handler applies before publishing: only Vera is automated.
IsRealSite(almacen) == almacen = "Vera"

\* Faulty variant of Directriz: the two numbers are interchanged.
DirectrizSwapped(accion, cantidad, posicion) ==
    [accion |-> accion, cantidad |-> NumToString(posicion), posicion |-> NumToString(cantidad)]

\* `{"accion": "entrada", "cantidad": "${cantidad}", "posicion": "${availablePosition}"}`
Directriz(accion, cantidad, posicion) ==
    [accion |-> accion, cantidad |-> NumToString(cantidad), posicion |-> NumToString(posicion)]

\* What a handler that starts an operation publishes.
PublishDirectriz(almacen, accion, cantidad, posicion) ==
    IF IsRealSite(almacen)
    THEN PublishMqttMessage("PR2A1/acciones/directriz",
                            Directriz(accion, cantidad, posicion), "undefined").sent
    ELSE <<>>

\* verifyPwd(req, res)
VerifyPwd(password) == password = ADMIN_PWD

\* for (let i = 1; i <= 5; i++) if (!usedLocationSet.has(i)) { availablePosition = i; break; }
RECURSIVE ScanFrom(_, _)
ScanFrom(i, usedLocationSet) ==
    IF i > 5 THEN NULL
    ELSE IF i \notin usedLocationSet THEN i
    ELSE ScanFrom(i + 1, usedLocationSet)

AvailablePosition(usedLocationSet) == ScanFrom(1, usedLocationSet)

\* Faulty variant of Operation: the AGV target is the slot after the position.
OperationTargetsNextSlot(type, position, cantidad, productId, almacen) ==
    [type |-> type, position |-> position, cantidad |-> cantidad,
     productId |-> productId, almacen |-> almacen,
     phase |-> "picking_from_storage", agvTargetPosition |-> position + 1]

\* The object a handler stores in systemState.currentOperation.
Operation(type, position, cantidad, productId, almacen) ==
    [type |-> type, position |-> position, cantidad |-> cantidad,
     productId |-> productId, almacen |-> almacen,
     phase |-> "picking_from_storage", agvTargetPosition |-> position]

\* ------------------------------------------------------ in-flight handlers

\* The locals of an async handler and the await point it is at.  The last fields
\* record what the handler itself did and saw: whether its steps changed
\* systemState or the ledger (touched), how many messages it handed to the
\* gateway (pubs), the operation and pendingBoxes it stored (op, boxes), the
\* ledger as it was when occupancy was read (seen), and whether the site was full
\* when the request arrived (fullAtIssue).
Idle ==
    [handler |-> "idle", pc |-> "idle", id |-> NULL, lectura |-> NULL,
     qrCantidad |-> NULL, password |-> "undefined", product |-> None,
     almacen |-> "undefined", cantidad |-> NULL, usedLocationSet |-> {},
     availablePosition |-> NULL,
     touched |-> FALSE, pubs |-> 0, op |-> None, boxes |-> NULL, seen |-> <<>>,
     fullAtIssue |-> FALSE]

\* A new handler takes the lowest free context.
Free(r) == req[r] = Idle /\ \A q \in Reqs : q < r => req[q] # Idle

\* Whether this step of a handler changed systemState or the ledger.
Touches == systemState' # systemState \/ reparto' # reparto

\* The handler's locals after a step, with what the step did added to its record.
After(r, locals) ==
    [locals EXCEPT !.touched = req[r].touched \/ Touches,
                   !.pubs = req[r].pubs + Len(outbox')]

\* The outcome of a handler that ends in this step: the HTTP response (status,
\* body) when there is one, with the request it answers and what the handler did.
Outcome(handler, id, password, status, error, body, r) ==
    [handler |-> handler, id |-> id, password |-> password,
     status |-> status, error |-> error, body |-> body,
     almacen |-> IF r = NULL THEN "undefined" ELSE req[r].almacen,
     op |-> IF r = NULL THEN None ELSE req[r].op,
     boxes |-> IF r = NULL THEN NULL ELSE req[r].boxes,
     fullAtIssue |-> IF r = NULL THEN FALSE ELSE req[r].fullAtIssue,
     touched |-> (IF r = NULL THEN FALSE ELSE req[r].touched) \/ Touches,
     pubs |-> (IF r = NULL THEN 0 ELSE req[r].pubs) + Len(outbox')]

\* The handler in context r ends with this outcome.
Finish(r, status, error, body) ==
    /\ resp' = Outcome(req[r].handler, req[r].id, req[r].password, status, error, body, r)
    /\ req' = [req EXCEPT ![r] = Idle]

\* The handler in context r goes on to its next await point.
Continue(r, locals) ==
    /\ resp' = None
    /\ req' = [req EXCEPT ![r] = After(r, locals)]

\* Whether every slot of the record's site is taken (false when there is no such record).
SiteFull(id) ==
    /\ id \in DOMAIN reparto
    /\ \A i \in 1..5 : i \in UsedLocationSet(reparto[id].almacen)

\* ------------------------------------------------------------- initial state

\* Faulty variant of InitialSystemState: boxes are pending before any operation.
InitialSystemStateWithBoxes ==
    [emergencyStop |-> FALSE,
     conveyor1Status |-> "Parado",
     conveyor2Status |-> "Parado",
     infrared1Status |-> 0,
     infrared2Status |-> 0,
     agvStatus |-> [ubicacion |-> 0, estado |-> "drop"],
     pendingBoxes |-> 12,
     currentOperation |-> None]

InitialSystemState ==
    [emergencyStop |-> FALSE,
     conveyor1Status |-> "Parado",
     conveyor2Status |-> "Parado",
     infrared1Status |-> 0,
     infrared2Status |-> 0,
     agvStatus |-> [ubicacion |-> 0, estado |-> "drop"],
     pendingBoxes |-> 0,
     currentOperation |-> None]

Init ==
    /\ systemState = InitialSystemState
    /\ mqttConnected = FALSE
    /\ \E layout \in Layouts : reparto = [i \in LedgerIds |-> StoredRow(i, layout[i])]
    /\ req = [r \in Reqs |-> Idle]
    /\ outbox = <<>>
    /\ resp = None
    /\ emergencyRun = 0
    /\ opStarts = 0
    /\ assigned = {}
    /\ dupAssigned = FALSE
    /\ arrivals = 0
    /\ running = TRUE

\* ------------------------------------------------- the awaited SQL statements

\* db.oneOrNone('SELECT ... FROM reparto WHERE id = $1') of the entrance and exit
\* handlers, and the by-id / by-lectura lookup of handleQrCodeEntry.
DbSelectProduct(r) ==
    /\ running
    /\ UNCHANGED running
    /\ req[r].pc = "q_product"
    /\ outbox' = <<>>
    /\ arrivals' = arrivals
    /\ emergencyRun' = 0
    /\ UNCHANGED <<systemState, mqttConnected, reparto, opStarts, assigned, dupAssigned>>
    /\ Continue(r, [req[r] EXCEPT
            !.pc = "r_product",
            !.product = IF req[r].handler = "qr-event" /\ Falsy(req[r].id)
                        THEN SelectByLectura(req[r].lectura)
                        ELSE SelectById(req[r].id)])

\* db.any("SELECT location FROM reparto WHERE location IS NOT NULL AND almacen = $1")
DbSelectUsedLocations(r) ==
    /\ running
    /\ UNCHANGED running
    /\ req[r].pc = "q_used"
    /\ outbox' = <<>>
    /\ arrivals' = arrivals
    /\ emergencyRun' = 0
    /\ UNCHANGED <<systemState, mqttConnected, reparto, opStarts, assigned, dupAssigned>>
    /\ Continue(r, [req[r] EXCEPT
            !.pc = "r_used",
            !.usedLocationSet = UsedLocationSet(req[r].almacen),
            !.seen = reparto])

\* db.none("UPDATE reparto SET location = $1, timestamp_recepcion = NOW() WHERE ... = $2")
DbUpdateLocation(r) ==
    /\ running
    /\ UNCHANGED running
    /\ req[r].pc = "q_update"
    /\ reparto' = IF req[r].handler = "qr-event" /\ Falsy(req[r].id)
                  THEN UpdateLocation("lectura", req[r].lectura, req[r].availablePosition)
                  ELSE UpdateLocation("id", req[r].id, req[r].availablePosition)
    /\ outbox' = <<>>
    /\ arrivals' = arrivals
    /\ emergencyRun' = 0
    /\ UNCHANGED <<systemState, mqttConnected, opStarts, assigned, dupAssigned>>
    /\ Continue(r, [req[r] EXCEPT !.pc = "r_update"])

\* db.none('DELETE FROM reparto WHERE id = $1')
DbDelete(r) ==
    /\ running
    /\ UNCHANGED running
    /\ req[r].pc = "q_delete"
    /\ reparto' = DeleteRow(req[r].id)
    /\ outbox' = <<>>
    /\ arrivals' = arrivals
    /\ emergencyRun' = 0
    /\ assigned' = {}
    /\ UNCHANGED <<systemState, mqttConnected, opStarts, dupAssigned>>
    /\ resp' = None
    /\ req' = [q \in Reqs |->
                 IF q = r THEN After(r, [req[r] EXCEPT !.pc = "r_delete"])
                 ELSE [req[q] EXCEPT !.fullAtIssue = FALSE]]

\* An awaited statement is rejected (connection lost, statement error): nothing is
\* written and the handler's await throws.
DbFails(r) ==
    /\ running
    /\ UNCHANGED running
    /\ req[r].pc \in {"q_product", "q_used", "q_update", "q_delete"}
    /\ outbox' = <<>>
    /\ arrivals' = arrivals
    /\ emergencyRun' = 0
    /\ UNCHANGED <<systemState, mqttConnected, reparto, opStarts, assigned, dupAssigned>>
    /\ Continue(r, [req[r] EXCEPT !.pc = "r_error"])

\* Faulty variant of CatchSystemState: the catch block discards the operation.
CatchSystemStateCompensates == [systemState EXCEPT !.currentOperation = None, !.pendingBoxes = 0]

\* systemState after the catch block of a handler: the block only logs and answers.
CatchSystemState == systemState

\* The catch block of the handler: 500 for the HTTP handlers, a log line for
\* handleQrCodeEntry.
HandlerCatch(r) ==
    /\ running
    /\ UNCHANGED running
    /\ req[r].pc = "r_error"
    /\ systemState' = CatchSystemState
    /\ outbox' = <<>>
    /\ arrivals' = arrivals
    /\ emergencyRun' = 0
    /\ UNCHANGED <<mqttConnected, reparto, opStarts, assigned, dupAssigned>>
    /\ IF req[r].handler = "qr-event"
       THEN Finish(r, NULL, "Internal", None)
       ELSE Finish(r, 500, "Internal", [error |-> "Error processing request"])

\* ---------------------------------------------------- POST /api/qr-entrada

\* The request arrives: the id check, then the product query is issued.
PostQrEntrada(r, id, password) ==
    /\ running
    /\ UNCHANGED running
    /\ Free(r)
    /\ arrivals < MaxArrivals
    /\ arrivals' = arrivals + 1
    /\ outbox' = <<>>
    /\ emergencyRun' = 0
    /\ UNCHANGED <<systemState, mqttConnected, reparto, opStarts, assigned, dupAssigned>>
    /\ IF Falsy(id)
       THEN /\ resp' = Outcome("qr-entrada", id, password, 400, "Validation",
                               [error |-> "Missing id in QR code"], NULL)
            /\ req' = req
       ELSE Continue(r, [Idle EXCEPT !.handler = "qr-entrada", !.pc = "q_product",
                                     !.id = id, !.password = password,
                                     !.fullAtIssue = SiteFull(id)])

\* After the product query: 404, or the used-locations query is issued.
QrEntradaProduct(r) ==
    /\ running
    /\ UNCHANGED running
    /\ req[r].handler = "qr-entrada"
    /\ req[r].pc = "r_product"
    /\ outbox' = <<>>
    /\ arrivals' = arrivals
    /\ emergencyRun' = 0
    /\ UNCHANGED <<systemState, mqttConnected, reparto, opStarts, assigned, dupAssigned>>
    /\ IF req[r].product = None
       THEN Finish(r, 404, "NotFound", [error |-> "Product not found"])
       ELSE Continue(r, [req[r] EXCEPT
                !.pc = "q_used",
                !.almacen = req[r].product.almacen,
                !.cantidad = ParseInt(OrElse(req[r].product.cantidad, 12))])

\* Faulty variant of EntradaSystemState: the operation is stored before the
\* capacity check.
EntradaSystemStateBeforeCheck(r, availablePosition) ==
    [systemState EXCEPT
        !.currentOperation = Operation("entrada", availablePosition, req[r].cantidad,
                                       req[r].id, req[r].almacen),
        !.pendingBoxes = req[r].cantidad]

\* systemState after the capacity check of /api/qr-entrada: unchanged when no
\* slot is free, else with the operation and the pending boxes stored.
EntradaSystemState(r, availablePosition) ==
    IF availablePosition = NULL THEN systemState
    ELSE [systemState EXCEPT
            !.currentOperation = Operation("entrada", availablePosition, req[r].cantidad,
                                           req[r].id, req[r].almacen),
            !.pendingBoxes = req[r].cantidad]

\* After the used-locations query: 400 when no slot is free; else the operation is
\* stored, the directive published and the ledger update issued.
QrEntradaAllocate(r) ==
    /\ running
    /\ UNCHANGED running
    /\ req[r].handler = "qr-entrada"
    /\ req[r].pc = "r_used"
    /\ arrivals' = arrivals
    /\ emergencyRun' = 0
    /\ UNCHANGED <<mqttConnected, reparto, assigned, dupAssigned>>
    /\ LET availablePosition == AvailablePosition(req[r].usedLocationSet)
       IN /\ systemState' = EntradaSystemState(r, availablePosition)
          /\ IF availablePosition = NULL
             THEN /\ outbox' = <<>>
                  /\ UNCHANGED opStarts
                  /\ Finish(r, 400, "NoCapacity", [error |-> "No available positions"])
             ELSE /\ opStarts' = IF systemState.currentOperation = None THEN 1 ELSE 2
                  /\ outbox' = PublishDirectriz(req[r].almacen, "entrada",
                                                req[r].cantidad, availablePosition)
                  /\ Continue(r, [req[r] EXCEPT !.pc = "q_update",
                                                !.availablePosition = availablePosition,
                                                !.op = systemState'.currentOperation,
                                                !.boxes = systemState'.pendingBoxes,
                                                !.seen = <<>>])

\* After the ledger update: the 200 response.
QrEntradaRespond(r) ==
    /\ running
    /\ UNCHANGED running
    /\ req[r].handler = "qr-entrada"
    /\ req[r].pc = "r_update"
    /\ outbox' = <<>>
    /\ arrivals' = arrivals
    /\ emergencyRun' = 0
    /\ assigned' = assigned \cup {<<req[r].almacen, req[r].availablePosition>>}
    /\ dupAssigned' = (dupAssigned \/ <<req[r].almacen, req[r].availablePosition>> \in assigned)
    /\ UNCHANGED <<systemState, mqttConnected, reparto, opStarts>>
    /\ Finish(r, 200, "none", [success |-> TRUE,
                               location |-> req[r].availablePosition,
                               cantidad |-> req[r].cantidad])

\* ------------------------- POST /api/salida-particulares, /api/salida-centro

\* The request arrives: verifyPwd, then the reparto query is issued.
PostSalida(r, handler, id, password) ==
    /\ running
    /\ UNCHANGED running
    /\ Free(r)
    /\ arrivals < MaxArrivals
    /\ arrivals' = arrivals + 1
    /\ outbox' = <<>>
    /\ emergencyRun' = 0
    /\ UNCHANGED <<systemState, mqttConnected, reparto, opStarts, assigned, dupAssigned>>
    /\ IF ~VerifyPwd(password)
       THEN /\ resp' = Outcome(handler, id, password, 403, "Unauthorized", "Forbidden", NULL)
            /\ req' = req
       ELSE Continue(r, [Idle EXCEPT !.handler = handler, !.pc = "q_product",
                                     !.id = id, !.password = password])

\* const boxCount = reparto.cantidad || 10
BoxCount(row) == OrElse(row.cantidad, 10)

\* systemState after /api/salida-particulares has stored its operation.
SalidaParticularesState(row) ==
    [systemState EXCEPT
        !.currentOperation = Operation("salida_particulares", row.location, BoxCount(row),
                                       row.lectura, row.almacen),
        !.pendingBoxes = BoxCount(row)]

\* systemState after /api/salida-centro has stored its operation.
SalidaCentroState(row) ==
    [systemState EXCEPT
        !.currentOperation = Operation("salida_centro", row.location, BoxCount(row),
                                       row.lectura, row.almacen)]

\* After the reparto query: 404, 400, or the operation is stored, the directive
\* published and the delete issued.
SalidaStart(r, handler, accion) ==
    /\ running
    /\ UNCHANGED running
    /\ req[r].handler = handler
    /\ req[r].pc = "r_product"
    /\ arrivals' = arrivals
    /\ emergencyRun' = 0
    /\ UNCHANGED <<mqttConnected, reparto, assigned, dupAssigned>>
    /\ LET row == req[r].product
       IN IF row = None
          THEN /\ outbox' = <<>>
               /\ UNCHANGED <<systemState, opStarts>>
               /\ Finish(r, 404, "NotFound", [error |-> "Reparto record not found"])
          ELSE IF Falsy(row.location)
          THEN /\ outbox' = <<>>
               /\ UNCHANGED <<systemState, opStarts>>
               /\ Finish(r, 400, "NotStored", [error |-> "not stored in a warehouse location"])
          ELSE /\ systemState' = IF accion = "salida_particulares"
                                 THEN SalidaParticularesState(row)
                                 ELSE SalidaCentroState(row)
               /\ opStarts' = IF systemState.currentOperation = None THEN 1 ELSE 2
               /\ outbox' = PublishDirectriz(row.almacen, accion, BoxCount(row), row.location)
               /\ Continue(r, [req[r] EXCEPT !.pc = "q_delete",
                                             !.almacen = row.almacen,
                                             !.cantidad = BoxCount(row),
                                             !.op = systemState'.currentOperation,
                                             !.boxes = systemState'.pendingBoxes])

SalidaParticularesStart(r) == SalidaStart(r, "salida-particulares", "salida_particulares")

SalidaCentroStart(r) == SalidaStart(r, "salida-centro", "salida_centro")

\* After the delete: the 200 response.
SalidaRespond(r) ==
    /\ running
    /\ UNCHANGED running
    /\ req[r].handler \in {"salida-particulares", "salida-centro"}
    /\ req[r].pc = "r_delete"
    /\ outbox' = <<>>
    /\ arrivals' = arrivals
    /\ emergencyRun' = 0
    /\ UNCHANGED <<systemState, mqttConnected, reparto, opStarts, assigned, dupAssigned>>
    /\ Finish(r, 200, "none", [success |-> TRUE,
                               posicion |-> req[r].product.location,
                               cantidad |-> req[r].cantidad,
                               almacen |-> req[r].almacen,
                               simulation |-> (req[r].almacen # "Vera")])

\* ------------------------------------------------ POST /api/reset-emergency

\* Faulty variant of ResetEmergencyState: the reset also zeroes pendingBoxes.
ResetEmergencyStateClearsBoxes ==
    [systemState EXCEPT !.emergencyStop = FALSE, !.pendingBoxes = 0]

\* systemState.emergencyStop = false
ResetEmergencyState == [systemState EXCEPT !.emergencyStop = FALSE]

ResetEmergency(password) ==
    /\ running
    /\ UNCHANGED running
    /\ outbox' = <<>>
    /\ arrivals' = arrivals
    /\ emergencyRun' = 0
    /\ systemState' = IF VerifyPwd(password)
                      THEN ResetEmergencyState
                      ELSE systemState
    /\ UNCHANGED <<mqttConnected, reparto, req, opStarts, assigned, dupAssigned>>
    /\ resp' = IF VerifyPwd(password)
               THEN Outcome("reset-emergency", NULL, password, 200, "none",
                            [success |-> TRUE], NULL)
               ELSE Outcome("reset-emergency", NULL, password, 403, "Unauthorized",
                            "Forbidden", NULL)

\* --------------------------------------------------- MQTT connection events

MqttConnect ==
    /\ running
    /\ UNCHANGED running
    /\ mqttConnected' = TRUE
    /\ outbox' = <<>>
    /\ resp' = None
    /\ arrivals' = arrivals
    /\ emergencyRun' = 0
    /\ UNCHANGED <<systemState, reparto, req, opStarts, assigned, dupAssigned>>

\* 'error' and 'offline'
MqttDisconnect ==
    /\ running
    /\ UNCHANGED running
    /\ mqttConnected' = FALSE
    /\ outbox' = <<>>
    /\ resp' = None
    /\ arrivals' = arrivals
    /\ emergencyRun' = 0
    /\ UNCHANGED <<systemState, reparto, req, opStarts, assigned, dupAssigned>>

\* ------------------------------------------------------- the emergency stop

\* Faulty variant of EmergencyStopMessages: the site of the current operation is
\* not looked at.
EmergencyStopMessagesAnySite ==
    LET parada == [accion |-> "parada"]
    IN PublishMqttMessage("PR2A1/acciones/conveyor_1", parada, "undefined").sent
       \o PublishMqttMessage("PR2A1/acciones/conveyor_2", parada, "undefined").sent
       \o PublishMqttMessage("PR2A1/acciones/paletizaje",
                             [accion |-> "parada", modo |-> "paletizar"], "undefined").sent
       \o PublishMqttMessage("PR2A1/cobot/recogida", parada, "undefined").sent

\* What handleEmergencyStop hands to the gateway: four stop messages when the site
\* of the current operation (Vera when there is none) is Vera.
EmergencyStopMessages ==
    LET almacen == IF systemState.currentOperation = None THEN "Vera"
                   ELSE systemState.currentOperation.almacen
        parada == [accion |-> "parada"]
    IN IF almacen = "Vera"
       THEN PublishMqttMessage("PR2A1/acciones/conveyor_1", parada, "undefined").sent
            \o PublishMqttMessage("PR2A1/acciones/conveyor_2", parada, "undefined").sent
            \o PublishMqttMessage("PR2A1/acciones/paletizaje",
                                  [accion |-> "parada", modo |-> "paletizar"], "undefined").sent
            \o PublishMqttMessage("PR2A1/cobot/recogida", parada, "undefined").sent
       ELSE <<>>

\* Faulty variant of HandleEmergencyStop: pendingBoxes is not reset.
HandleEmergencyStopKeepsBoxes ==
    [systemState EXCEPT !.emergencyStop = TRUE, !.currentOperation = None]

\* Faulty variant of HandleEmergencyStop: the message toggles the flag.
HandleEmergencyStopToggles ==
    [systemState EXCEPT !.emergencyStop = ~systemState.emergencyStop,
                        !.currentOperation = None,
                        !.pendingBoxes = 0]

\* systemState after the emergency-stop message has been handled.
HandleEmergencyStop ==
    [systemState EXCEPT !.emergencyStop = TRUE,
                        !.currentOperation = None,
                        !.pendingBoxes = 0]

\* A message on PR2A1/avisos/parada_emergencia, whatever its payload.
MqttParadaEmergencia ==
    /\ running
    /\ UNCHANGED running
    /\ systemState' = HandleEmergencyStop
    /\ outbox' = EmergencyStopMessages
    /\ resp' = None
    /\ arrivals' = arrivals
    /\ emergencyRun' = IF emergencyRun = 0 THEN 1 ELSE 2
    /\ opStarts' = 0
    /\ UNCHANGED <<mqttConnected, reparto, req, assigned, dupAssigned>>

\* ------------------------------- PR2A1/avisos/QR and handleQrCodeEntry

\* A QR payload: text that is not JSON ("not-json"), an object whose 'QR Code'
\* member is not JSON ("wrapped-bad"), or {id, cantidad, lectura} given directly
\* ("plain") or as JSON text under 'QR Code' ("wrapped").
QrPayload(shape, id, lectura, cantidad) ==
    [shape |-> shape, id |-> id, lectura |-> lectura, cantidad |-> cantidad]

\* The message arrives: JSON.parse, the unwrapping, the id / lectura check, then
\* the product query is issued.
MqttQr(r, payload) ==
    /\ running
    /\ UNCHANGED running
    /\ Free(r)
    /\ arrivals < MaxArrivals
    /\ arrivals' = arrivals + 1
    /\ outbox' = <<>>
    /\ emergencyRun' = 0
    /\ UNCHANGED <<systemState, mqttConnected, reparto, opStarts, assigned, dupAssigned>>
    /\ IF payload.shape = "not-json"
       THEN /\ resp' = None
            /\ req' = req
       ELSE IF payload.shape = "wrapped-bad"
       THEN /\ resp' = Outcome("qr-event", payload.id, "undefined", NULL, "Validation", None, NULL)
            /\ req' = req
       ELSE IF Falsy(payload.id) /\ Falsy(payload.lectura)
       THEN /\ resp' = Outcome("qr-event", payload.id, "undefined", NULL, "Validation", None, NULL)
            /\ req' = req
       ELSE Continue(r, [Idle EXCEPT !.handler = "qr-event", !.pc = "q_product",
                                     !.id = payload.id, !.lectura = payload.lectura,
                                     !.qrCantidad = payload.cantidad,
                                     !.cantidad = ParseInt(OrElse(payload.cantidad, 12))])

\* After the product query: return, or the used-locations query is issued.
QrEventProduct(r) ==
    /\ running
    /\ UNCHANGED running
    /\ req[r].handler = "qr-event"
    /\ req[r].pc = "r_product"
    /\ outbox' = <<>>
    /\ arrivals' = arrivals
    /\ emergencyRun' = 0
    /\ UNCHANGED <<systemState, mqttConnected, reparto, opStarts, assigned, dupAssigned>>
    /\ IF req[r].product = None
       THEN Finish(r, NULL, "NotFound", None)
       ELSE Continue(r, [req[r] EXCEPT !.pc = "q_used",
                                       !.almacen = req[r].product.almacen])

\* After the used-locations query: return when no slot is free; else the operation
\* is stored, the directive published and the ledger update issued.
QrEventAllocate(r) ==
    /\ running
    /\ UNCHANGED running
    /\ req[r].handler = "qr-event"
    /\ req[r].pc = "r_used"
    /\ arrivals' = arrivals
    /\ emergencyRun' = 0
    /\ UNCHANGED <<mqttConnected, reparto, assigned, dupAssigned>>
    /\ LET availablePosition == AvailablePosition(req[r].usedLocationSet)
           op == Operation("entrada", availablePosition, req[r].cantidad,
                           OrElse(req[r].id, req[r].lectura), req[r].almacen)
       IN IF availablePosition = NULL
          THEN /\ outbox' = <<>>
               /\ UNCHANGED <<systemState, opStarts>>
               /\ Finish(r, NULL, "NoCapacity", None)
          ELSE /\ systemState' = [systemState EXCEPT !.currentOperation = op,
                                                     !.pendingBoxes = req[r].cantidad]
               /\ opStarts' = IF systemState.currentOperation = None THEN 1 ELSE 2
               /\ outbox' = PublishDirectriz(req[r].almacen, "entrada",
                                             req[r].cantidad, availablePosition)
               /\ Continue(r, [req[r] EXCEPT !.pc = "q_update",
                                             !.availablePosition = availablePosition,
                                             !.op = op,
                                             !.boxes = systemState'.pendingBoxes,
                                             !.seen = <<>>])

\* After the ledger update: the handler returns.
QrEventDone(r) ==
    /\ running
    /\ UNCHANGED running
    /\ req[r].handler = "qr-event"
    /\ req[r].pc = "r_update"
    /\ outbox' = <<>>
    /\ arrivals' = arrivals
    /\ emergencyRun' = 0
    /\ UNCHANGED <<systemState, mqttConnected, reparto, opStarts, assigned, dupAssigned>>
    /\ Finish(r, NULL, "none", [location |-> req[r].availablePosition,
                                cantidad |-> req[r].cantidad])

\* ------------------------------------------------------ device status topics

ConveyorTexts == {"Parado", "Marcha"}

\* PR2A1/status/conveyor_1
MqttConveyor1(messageStr) ==
    /\ running
    /\ UNCHANGED running
    /\ systemState' = [systemState EXCEPT !.conveyor1Status = messageStr]
    /\ outbox' = <<>>
    /\ resp' = None
    /\ arrivals' = arrivals
    /\ emergencyRun' = 0
    /\ UNCHANGED <<mqttConnected, reparto, req, opStarts, assigned, dupAssigned>>

\* PR2A1/status/conveyor_2
MqttConveyor2(messageStr) ==
    /\ running
    /\ UNCHANGED running
    /\ systemState' = [systemState EXCEPT !.conveyor2Status = messageStr]
    /\ outbox' = <<>>
    /\ resp' = None
    /\ arrivals' = arrivals
    /\ emergencyRun' = 0
    /\ UNCHANGED <<mqttConnected, reparto, req, opStarts, assigned, dupAssigned>>

\* The payloads of an AGV status message: text that is not JSON, or {ubicacion, estado}.
AgvPayloads ==
    [json : {FALSE}, ubicacion : {0}, estado : {"drop"}]
    \cup [json : {TRUE}, ubicacion : {0, 1}, estado : {"drop", "carry"}]

\* Faulty variant of AgvSystemState: an arrival at the target position discards
\* the operation.
AgvSystemStateFinalizes(payload) ==
    IF ~payload.json THEN systemState
    ELSE [systemState EXCEPT
            !.agvStatus = [ubicacion |-> payload.ubicacion, estado |-> payload.estado],
            !.currentOperation =
                IF systemState.currentOperation # None
                   /\ systemState.currentOperation.agvTargetPosition = payload.ubicacion
                THEN None ELSE systemState.currentOperation]

\* systemState after an AGV status message: on text that is not JSON nothing is
\* stored; else the two fields are stored, and the call of handleAgvReachedPosition,
\* a function the file does not define, throws inside the try and is caught.
AgvSystemState(payload) ==
    IF payload.json
    THEN [systemState EXCEPT !.agvStatus =
             [ubicacion |-> payload.ubicacion, estado |-> payload.estado]]
    ELSE systemState

\* PR2A1/status/agv
MqttAgv(payload) ==
    /\ running
    /\ UNCHANGED running
    /\ systemState' = AgvSystemState(payload)
    /\ outbox' = <<>>
    /\ resp' = None
    /\ arrivals' = arrivals
    /\ emergencyRun' = 0
    /\ UNCHANGED <<mqttConnected, reparto, req, opStarts, assigned, dupAssigned>>

\* parseInt of a text that is not a number.
NaN == -2

\* parseInt(messageStr) of a one-character payload.
ParseIntText(messageStr) ==
    IF \E n \in 0..9 : Digit[n + 1] = messageStr
    THEN CHOOSE n \in 0..9 : Digit[n + 1] = messageStr
    ELSE NaN

\* PR2A1/status/infrarrojos_1: the parsed value is stored, then the call of
\* handleInfrared1StatusChange, a function the file does not define, throws out of
\* the message listener.  Whether that ends the process depends on the caller of
\* the listener, which is not part of the file: both outcomes are possible.
MqttInfrared1(messageStr) ==
    /\ running
    /\ running' \in BOOLEAN
    /\ systemState' = [systemState EXCEPT !.infrared1Status = ParseIntText(messageStr)]
    /\ outbox' = <<>>
    /\ resp' = None
    /\ arrivals' = arrivals
    /\ emergencyRun' = 0
    /\ UNCHANGED <<mqttConnected, reparto, req, opStarts, assigned, dupAssigned>>

\* PR2A1/status/infrarrojos_2: as infrarrojos_1, with handleInfrared2StatusChange.
MqttInfrared2(messageStr) ==
    /\ running
    /\ running' \in BOOLEAN
    /\ systemState' = [systemState EXCEPT !.infrared2Status = ParseIntText(messageStr)]
    /\ outbox' = <<>>
    /\ resp' = None
    /\ arrivals' = arrivals
    /\ emergencyRun' = 0
    /\ UNCHANGED <<mqttConnected, reparto, req, opStarts, assigned, dupAssigned>>

\* ------------------------------------------------------------ specifications

\* The steps of the handler in context r.
HandlerStep(r) ==
    \/ DbSelectProduct(r)
    \/ DbSelectUsedLocations(r)
    \/ DbUpdateLocation(r)
    \/ DbDelete(r)
    \/ QrEntradaProduct(r)
    \/ QrEntradaAllocate(r)
    \/ QrEntradaRespond(r)
    \/ SalidaParticularesStart(r)
    \/ SalidaCentroStart(r)
    \/ SalidaRespond(r)
    \/ QrEventProduct(r)
    \/ QrEventAllocate(r)
    \/ QrEventDone(r)

\* A statement of the handler in context r fails, and its catch block runs.
HandlerFailure(r) ==
    \/ DbFails(r)
    \/ HandlerCatch(r)

\* Events that involve no handler context.
Event ==
    \/ MqttParadaEmergencia
    \/ MqttConnect
    \/ MqttDisconnect

\* --- Spec: up to NumReq handlers in flight, interleaved at their await points.

RaceEntradaIds == {1, 2, 9, NULL}
RaceSalidaIds == {1, 9}
RaceQrPayloads ==
    { QrPayload("plain", 2, NULL, NULL), QrPayload("wrapped", NULL, LecturaOf(1), 5) }

Next ==
    \/ \E r \in Reqs, id \in RaceEntradaIds : PostQrEntrada(r, id, "secret")
    \/ \E r \in Reqs, id \in RaceSalidaIds, password \in {"secret", "wrong"} :
          PostSalida(r, "salida-particulares", id, password)
    \/ \E r \in Reqs : PostSalida(r, "salida-centro", 1, "secret")
    \/ \E r \in Reqs, payload \in RaceQrPayloads : MqttQr(r, payload)
    \/ \E r \in Reqs : HandlerStep(r)
    \/ ResetEmergency("secret")
    \/ Event

Spec == Init /\ [][Next]_vars

\* --- SpecSeq: one handler in flight at a time, every kind of request input,
\* statements that can fail.

SeqIds == {1, 2, 6, 9, NULL}
SeqQrPayloads ==
    { QrPayload("not-json", NULL, NULL, NULL), QrPayload("wrapped-bad", NULL, NULL, NULL),
      QrPayload("plain", NULL, NULL, 5), QrPayload("plain", 6, NULL, 5),
      QrPayload("wrapped", 9, LecturaOf(2), NULL), QrPayload("plain", NULL, LecturaOf(2), NULL) }

NextSeq ==
    \/ \E id \in SeqIds, password \in Passwords : PostQrEntrada(1, id, password)
    \/ \E id \in SeqIds, password \in Passwords :
          PostSalida(1, "salida-particulares", id, password)
    \/ \E id \in SeqIds, password \in Passwords :
          PostSalida(1, "salida-centro", id, password)
    \/ \E payload \in SeqQrPayloads : MqttQr(1, payload)
    \/ HandlerStep(1)
    \/ HandlerFailure(1)
    \/ \E password \in Passwords : ResetEmergency(password)
    \/ Event

SpecSeq == Init /\ [][NextSeq]_vars

\* --- SpecDevice: the device status topics, around one handler at a time.

NextDevice ==
    \/ PostQrEntrada(1, 1, "secret")
    \/ PostSalida(1, "salida-particulares", 1, "secret")
    \/ PostSalida(1, "salida-centro", 6, "secret")
    \/ MqttQr(1, QrPayload("plain", 6, NULL, 5))
    \/ HandlerStep(1)
    \/ \E password \in Passwords : ResetEmergency(password)
    \/ Event
    \/ \E messageStr \in ConveyorTexts : MqttConveyor1(messageStr)
    \/ \E messageStr \in ConveyorTexts : MqttConveyor2(messageStr)
    \/ \E payload \in AgvPayloads : MqttAgv(payload)

SpecDevice == Init /\ [][NextDevice]_vars

\* --- SpecTelemetry: every status topic, around one start at a time.

TelemetryAgvPayloads ==
    { [json |-> FALSE, ubicacion |-> 0, estado |-> "drop"],
      [json |-> TRUE, ubicacion |-> 4, estado |-> "carry"] }

NextTelemetry ==
    \/ PostQrEntrada(1, 1, "secret")
    \/ PostSalida(1, "salida-particulares", 4, "secret")
    \/ PostSalida(1, "salida-centro", 4, "secret")
    \/ MqttQr(1, QrPayload("plain", 1, NULL, 5))
    \/ HandlerStep(1)
    \/ ResetEmergency("secret")
    \/ Event
    \/ MqttConveyor1("Marcha")
    \/ MqttConveyor2("Marcha")
    \/ \E messageStr \in {"1"} : MqttInfrared1(messageStr)
    \/ \E messageStr \in {"x"} : MqttInfrared2(messageStr)
    \/ \E payload \in TelemetryAgvPayloads : MqttAgv(payload)

SpecTelemetry == Init /\ [][NextTelemetry]_vars

\* ================================================================ properties

\* The outcome of an HTTP request that starts an operation.
StartHandlers == {"qr-entrada", "salida-particulares", "salida-centro"}

IsOutcomeOf(handlers) == resp # None /\ resp.handler \in handlers

\* A handler that has stored its operation and awaits its ledger statement.
Started(r) == req[r].pc \in {"q_update", "r_update", "q_delete", "r_delete"}

\* The slots of a site that no record of the ledger holds.
FreeSlots(ledger, almacen) ==
    {i \in 1..5 : \A j \in DOMAIN ledger :
                     ~(ledger[j].almacen = almacen /\ ledger[j].location = i)}

Lowest(S) == CHOOSE i \in S : \A j \in S : i <= j

\* C1: no two ledger records of the same site hold the same non-null location,
\* and every non-null location is in 1..5.
C1_SlotsUnique ==
    /\ \A i \in DOMAIN reparto : reparto[i].location # NULL => reparto[i].location \in 1..5
    /\ \A i, j \in DOMAIN reparto :
          (i # j /\ reparto[i].location # NULL /\ reparto[i].almacen = reparto[j].almacen)
             => reparto[i].location # reparto[j].location

\* C2: the slots returned by successful entrance requests of a site, with no exit
\* in between, are pairwise distinct and in 1..5, and a request that arrived when
\* the site had no free slot ends with NoCapacity (400).
C2_DistinctUntilExhausted ==
    /\ ~dupAssigned
    /\ \A p \in assigned : p[2] \in 1..5
    /\ (IsOutcomeOf({"qr-entrada"}) /\ resp.fullAtIssue)
          => (resp.status = 400 /\ resp.error = "NoCapacity")

\* C3: right after an emergency-stop message has been handled, emergencyStop is
\* true, currentOperation is empty and pendingBoxes is 0.
C3_EmergencyClears ==
    emergencyRun > 0 =>
        /\ systemState.emergencyStop = TRUE
        /\ systemState.currentOperation = None
        /\ systemState.pendingBoxes = 0

\* The emergency stop has just interrupted a started operation, gateway connected.
C3_Witness ==
    /\ emergencyRun = 1
    /\ mqttConnected
    /\ Len(outbox) = 4
    /\ \E r \in Reqs : Started(r) /\ req[r].boxes > 0

\* C4: no operation is started while another one is active.
C4_SingleFlight == opStarts <= 1

\* C5: when an entrance request is answered 200 with slot S, the ledger record of
\* its product has location S and a receipt timestamp.
C5_EntranceRecorded ==
    (IsOutcomeOf({"qr-entrada"}) /\ resp.status = 200) =>
        /\ resp.id \in DOMAIN reparto
        /\ reparto[resp.id].location = resp.body.location
        /\ reparto[resp.id].timestamp_recepcion # NULL

\* C6: a request to start an entrance, start an exit or reset the emergency that
\* carries a wrong or no password is answered 403, its handler changes neither
\* systemState nor the ledger and publishes nothing.
C6_UnauthorizedRejected ==
    /\ (IsOutcomeOf(StartHandlers \cup {"reset-emergency"}) /\ resp.password # ADMIN_PWD)
          => (resp.status = 403 /\ ~resp.touched /\ resp.pubs = 0)
    /\ \A r \in Reqs :
          (req[r].handler \in StartHandlers /\ req[r].password # ADMIN_PWD)
             => (~req[r].touched /\ req[r].pubs = 0)

\* What every successful start for a record of a site other than Vera shows: no
\* message handed to the gateway, the operation stored with the record's site and
\* the returned slot, and pendingBoxes set to the returned quantity by the
\* entrance and by salida-particulares.
SimulatedStartEffects ==
    /\ resp.pubs = 0
    /\ resp.touched
    /\ resp.op # None
    /\ resp.op.almacen = resp.almacen
    /\ resp.op.cantidad = resp.body.cantidad
    /\ resp.op.position = (IF resp.handler = "qr-entrada" THEN resp.body.location
                           ELSE resp.body.posicion)
    /\ resp.op.agvTargetPosition = resp.op.position
    /\ resp.handler # "salida-centro" => resp.boxes = resp.body.cantidad

C8_LowestFreeSlot ==
    [][\A r \in Reqs :
          (req[r].pc = "r_used" /\ req'[r].pc # "r_used") =>
              LET free == FreeSlots(req[r].seen, req[r].almacen)
              IN IF free = {}
                 THEN /\ req'[r] = Idle
                      /\ resp'.error = "NoCapacity"
                      /\ systemState' = systemState
                 ELSE /\ req'[r].pc = "q_update"
                      /\ req'[r].availablePosition = Lowest(free)
                      /\ systemState'.currentOperation.position = Lowest(free)
                      /\ systemState'.currentOperation.almacen = req[r].almacen]_vars

\* Slot 3 has been assigned at Vera while slot 4 is taken: the lowest free slot,
\* not the next one after the highest taken.
C8_Witness ==
    \E r \in Reqs :
        /\ req[r].pc = "q_update"
        /\ req[r].almacen = "Vera"
        /\ req[r].availablePosition = 3
        /\ 4 \in UsedLocationSet("Vera")

\* C9: a second emergency-stop message handled right after a first leaves
\* systemState as it was after the first.
C9_EmergencyIdempotent ==
    [][(emergencyRun >= 1 /\ emergencyRun' = 2) =>
          /\ systemState' = systemState
          /\ systemState'.emergencyStop = TRUE
          /\ systemState'.currentOperation = None
          /\ systemState'.pendingBoxes = 0]_vars

\* Two emergency-stop messages in a row, with device status other than the initial one.
C9_Witness ==
    /\ emergencyRun = 2
    /\ systemState.conveyor1Status = "Marcha"
    /\ systemState.agvStatus = [ubicacion |-> 1, estado |-> "carry"]

\* C10: a start request rejected as Validation, NotFound, NoCapacity or NotStored
\* has changed neither systemState nor the ledger and has published nothing.
C10_RejectedNoMutation ==
    (IsOutcomeOf(StartHandlers)
        /\ resp.error \in {"Validation", "NotFound", "NoCapacity", "NotStored"})
       => (~resp.touched /\ resp.pubs = 0 /\ resp.op = None /\ resp.status \in {400, 404})

\* An entrance has just been rejected for lack of a free slot while an operation
\* started by another request is active.
C10_Witness ==
    /\ IsOutcomeOf({"qr-entrada"})
    /\ resp.error = "NoCapacity"
    /\ systemState.currentOperation # None


\* C11: when an AGV status message reports the location that is the
\* agvTargetPosition of the current operation, the arrival handler finalizes the
\* operation: after the message currentOperation is empty or its phase is no
\* longer picking_from_storage.
C11_ArrivalFinalizes ==
    [][\A payload \in AgvPayloads :
          ( /\ MqttAgv(payload)
            /\ payload.json
            /\ systemState.currentOperation # None
            /\ systemState.currentOperation.agvTargetPosition = payload.ubicacion )
          => \/ systemState'.currentOperation = None
             \/ systemState'.currentOperation.phase # "picking_from_storage"]_vars

\* The handlers of the two exit endpoints, and the operation type each stores.
ExitHandlers == {"salida-particulares", "salida-centro"}

ExitType(handler) ==
    IF handler = "salida-particulares" THEN "salida_particulares" ELSE "salida_centro"

\* C12: an exit (particulares or centro) that passes its checks for a record
\* stored at slot S stores an operation of its kind with position =
\* agvTargetPosition = S and the record's site; its DELETE removes the record, so
\* that slot S is free at that site; its response returns S; and an exit whose
\* query finds no record with the id ends with NotFound.
C12_ExitStartsAndDeletes ==
    [][\A r \in Reqs :
          LET id == req[r].id
              handler == req[r].handler
          IN handler \in ExitHandlers =>
               /\ (req[r].pc = "r_product" /\ req'[r].pc = "q_delete") =>
                     /\ id \in DOMAIN reparto
                     /\ systemState'.currentOperation # None
                     /\ systemState'.currentOperation.type = ExitType(handler)
                     /\ systemState'.currentOperation.position = reparto[id].location
                     /\ systemState'.currentOperation.agvTargetPosition = reparto[id].location
                     /\ systemState'.currentOperation.almacen = reparto[id].almacen
                     /\ reparto[id].location \in 1..5
               /\ (req[r].pc = "q_delete" /\ req'[r].pc = "r_delete") =>
                     /\ id \in DOMAIN reparto
                     /\ id \notin DOMAIN reparto'
                     /\ reparto[id].location = req[r].op.position
                     /\ req[r].op.position \in FreeSlots(reparto', req[r].op.almacen)
               /\ (req[r].pc = "r_delete" /\ req'[r] = Idle) =>
                     /\ resp'.status = 200
                     /\ resp'.body.posicion = req[r].op.position
                     /\ id \notin DOMAIN reparto'
                     /\ req[r].op.position \in FreeSlots(reparto', req[r].op.almacen)
               /\ (req[r].pc = "q_product" /\ req'[r].pc = "r_product"
                   /\ id \notin DOMAIN reparto) =>
                     req'[r].product = None
               /\ (req[r].pc = "r_product" /\ req[r].product = None /\ req'[r] = Idle) =>
                     /\ resp'.status = 404
                     /\ resp'.error = "NotFound"]_vars

\* A second exit for record 1 has just been answered NotFound, the first one
\* having deleted the record.
C12_Witness ==
    /\ IsOutcomeOf(ExitHandlers)
    /\ resp.id = 1
    /\ resp.status = 404
    /\ 1 \notin DOMAIN reparto
    /\ arrivals = 2

\* C13: the emergency stop takes the site from currentOperation when there is
\* one, else Vera.  For Vera it hands exactly four stop messages to the gateway,
\* one per device topic in the order conveyor 1, conveyor 2, palletizing, cobot
\* pickup, all transmitted when the gateway is connected and none when it is not;
\* for another site nothing is transmitted.  In both cases currentOperation is
\* emptied and pendingBoxes set to 0.
C13_EmergencyDirectives ==
    [][emergencyRun' > 0 =>
          LET almacen == IF systemState.currentOperation = None THEN "Vera"
                         ELSE systemState.currentOperation.almacen
          IN /\ IF almacen = "Vera" /\ mqttConnected
                THEN /\ Len(outbox') = 4
                     /\ [i \in 1..4 |-> outbox'[i].topic] =
                           <<"PR2A1/acciones/conveyor_1", "PR2A1/acciones/conveyor_2",
                             "PR2A1/acciones/paletizaje", "PR2A1/cobot/recogida">>
                     /\ \A i \in 1..4 : outbox'[i].message.accion = "parada"
                ELSE outbox' = <<>>
             /\ systemState'.currentOperation = None
             /\ systemState'.pendingBoxes = 0]_vars

\* The stop arrived while an operation of Gandia was active and the gateway was
\* connected: it has just been handled without a message, the operation discarded.
C13_Witness ==
    /\ emergencyRun = 1
    /\ mqttConnected
    /\ outbox = <<>>
    /\ systemState.currentOperation = None
    /\ \E r \in Reqs : Started(r) /\ req[r].op # None /\ req[r].op.almacen = "Gandia"

\* C14: a reset-emergency request with the valid credential sets emergencyStop to
\* false and changes nothing else: currentOperation (not restored), pendingBoxes,
\* the device status fields, the ledger, the connectivity flag and the handlers
\* in flight are as before, and nothing is handed to the gateway.
C14_ResetOnlyClearsFlag ==
    [][(resp' # None /\ resp'.handler = "reset-emergency" /\ resp'.status = 200) =>
          /\ systemState' = [systemState EXCEPT !.emergencyStop = FALSE]
          /\ systemState'.emergencyStop = FALSE
          /\ reparto' = reparto
          /\ mqttConnected' = mqttConnected
          /\ req' = req
          /\ outbox' = <<>>]_vars

\* The reset has just been answered after an emergency stop discarded the
\* operation of a handler that is still in flight; the conveyor status differs
\* from its initial value.
C14_Witness ==
    /\ IsOutcomeOf({"reset-emergency"})
    /\ resp.status = 200
    /\ ~systemState.emergencyStop
    /\ systemState.currentOperation = None
    /\ systemState.conveyor1Status = "Marcha"
    /\ \E r \in Reqs : Started(r)

\* The topics the server publishes to.
PublishTopics ==
    {"PR2A1/acciones/directriz", "PR2A1/acciones/conveyor_1", "PR2A1/acciones/conveyor_2",
     "PR2A1/acciones/paletizaje", "PR2A1/cobot/recogida"}

\* C15: the connectivity flag is false at start, true after a connect event and
\* false after an error or offline event, and changes on no other step; while it
\* is false publishMqttMessage returns false and hands nothing to the client for
\* every topic, and no step transmits a message.
C15_PublishGated ==
    /\ mqttConnected = FALSE
    /\ [][/\ MqttConnect => mqttConnected'
          /\ MqttDisconnect => ~mqttConnected'
          /\ mqttConnected' # mqttConnected => (MqttConnect \/ MqttDisconnect)]_vars
    /\ [](~mqttConnected =>
            /\ \A topic \in PublishTopics :
                  PublishMqttMessage(topic, [accion |-> "parada"], "undefined")
                     = [ok |-> FALSE, sent |-> <<>>]
            /\ outbox = <<>>)

\* After a connect event (the handler in flight got its directive out) and a later
\* error or offline event, an emergency stop for Vera has just been handled and
\* none of its four messages was transmitted.
C15_Witness ==
    /\ ~mqttConnected
    /\ emergencyRun = 1
    /\ outbox = <<>>
    /\ \E r \in Reqs : Started(r) /\ req[r].pubs = 1 /\ req[r].almacen = "Vera"

\* C16: when the ledger statement of a started operation (the UPDATE of an
\* entrance, the DELETE of an exit) fails, neither the failure nor the catch block
\* changes systemState or the ledger or hands anything to the gateway (the
\* directive is not retracted, currentOperation and pendingBoxes stay as they
\* were), and an HTTP request is answered 500.
C16_NoCompensation ==
    [][\A r \in Reqs :
          /\ (req[r].pc \in {"q_update", "q_delete"} /\ req'[r].pc = "r_error") =>
                /\ systemState' = systemState
                /\ reparto' = reparto
                /\ outbox' = <<>>
                /\ req'[r].op = req[r].op
          /\ (req[r].pc = "r_error" /\ req[r].op # None /\ req'[r] = Idle) =>
                /\ systemState' = systemState
                /\ reparto' = reparto
                /\ outbox' = <<>>
                /\ resp'.error = "Internal"
                /\ resp'.pubs = req[r].pubs
                /\ resp'.op = req[r].op
                /\ req[r].handler \in StartHandlers => resp'.status = 500]_vars

\* An entrance of record 1 whose directive was transmitted has just been answered
\* 500: its operation and pendingBoxes are still in systemState and the record has
\* no location.
C16_Witness ==
    /\ IsOutcomeOf({"qr-entrada"})
    /\ resp.status = 500
    /\ resp.id = 1
    /\ resp.pubs = 1
    /\ resp.op # None
    /\ systemState.currentOperation = resp.op
    /\ systemState.pendingBoxes = resp.boxes
    /\ reparto[1].location = NULL

\* The step in which the handler in context r stores its operation and publishes
\* its directive.
StartStep(r) ==
    \/ req[r].handler = "qr-entrada" /\ req[r].pc = "r_used" /\ req'[r].pc = "q_update"
    \/ req[r].handler \in ExitHandlers /\ req[r].pc = "r_product" /\ req'[r].pc = "q_delete"

\* The step in which the handler in context r answers after its ledger statement.
RespondStep(r) ==
    /\ req[r].handler \in StartHandlers
    /\ req[r].pc \in {"r_update", "r_delete"}
    /\ req'[r] = Idle

\* C17: when an entrance or exit of a Vera record is started while the gateway is
\* disconnected, nothing is transmitted, yet currentOperation is set and
\* pendingBoxes is set to its quantity; and when such a handler answers, the
\* answer is 200 and the ledger write (entrance) or delete (exit) has been done.
C17_GatewayFailureNoRollback ==
    [][\A r \in Reqs :
          /\ (StartStep(r) /\ req'[r].almacen = "Vera" /\ ~mqttConnected) =>
                /\ outbox' = <<>>
                /\ systemState'.currentOperation # None
                /\ systemState'.currentOperation.almacen = "Vera"
                /\ systemState'.pendingBoxes = systemState'.currentOperation.cantidad
          /\ (RespondStep(r) /\ req[r].almacen = "Vera" /\ req[r].pubs = 0) =>
                /\ resp'.status = 200
                /\ IF req[r].handler = "qr-entrada"
                   THEN reparto'[req[r].id].location = req[r].availablePosition
                   ELSE req[r].id \notin DOMAIN reparto']_vars

\* What a start of handler `handler` for ledger row `row` does, given the slot it
\* works on: the operation stored, the pendingBoxes afterwards, the directive.
\* The row's site appears only as the almacen field of the operation.
ExpectedOperation(handler, row, slot) ==
    IF handler = "qr-entrada"
    THEN Operation("entrada", slot, OrElse(row.cantidad, 12), row.id, row.almacen)
    ELSE Operation(ExitType(handler), slot, OrElse(row.cantidad, 10), row.lectura, row.almacen)

ExpectedPendingBoxes(handler, row) ==
    IF handler = "qr-entrada" THEN OrElse(row.cantidad, 12)
    ELSE IF handler = "salida-particulares" THEN OrElse(row.cantidad, 10)
    ELSE systemState.pendingBoxes

ExpectedDirectriz(handler, row, slot) ==
    [topic |-> "PR2A1/acciones/directriz",
     message |-> [accion |-> IF handler = "qr-entrada" THEN "entrada" ELSE ExitType(handler),
                  cantidad |-> NumToString(IF handler = "qr-entrada"
                                           THEN OrElse(row.cantidad, 12)
                                           ELSE OrElse(row.cantidad, 10)),
                  posicion |-> NumToString(slot)]]

\* What the steps of the start handler in context r do to the state, the ledger
\* and the gateway, for a record of Vera and for a record of another site alike.
SiteBlindEffects(r) ==
    LET id == req[r].id
        handler == req[r].handler
        real == req'[r].almacen = "Vera"
    IN /\ StartStep(r) =>
            LET row == reparto[id]
                slot == IF handler = "qr-entrada"
                        THEN Lowest(FreeSlots(reparto, row.almacen))
                        ELSE row.location
            IN /\ req'[r].almacen = row.almacen
               /\ systemState'.currentOperation = ExpectedOperation(handler, row, slot)
               /\ systemState'.pendingBoxes = ExpectedPendingBoxes(handler, row)
               /\ outbox' = IF real /\ mqttConnected
                            THEN <<ExpectedDirectriz(handler, row, slot)>>
                            ELSE <<>>
       /\ (handler = "qr-entrada" /\ req[r].pc = "q_update" /\ req'[r].pc = "r_update") =>
            reparto' = [reparto EXCEPT ![id].location = req[r].op.position,
                                       ![id].timestamp_recepcion = NOW]
       /\ (handler \in ExitHandlers /\ req[r].pc = "q_delete" /\ req'[r].pc = "r_delete") =>
            reparto' = [i \in DOMAIN reparto \ {id} |-> reparto[i]]

\* The members of a response payload other than the simulation flag.
WithoutSimulation(payload) ==
    [f \in DOMAIN payload \ {"simulation"} |-> payload[f]]

\* C18 as stated: for a record of Vera and for a record of another site alike, a
\* start stores the same operation (but for its almacen field) and pendingBoxes
\* and makes the same ledger write, nothing being transmitted for the other site;
\* and the response payload, its simulation flag apart, holds nothing that
\* depends on the site.
C18_IdenticalPayloads ==
    [][\A r \in Reqs :
          /\ SiteBlindEffects(r)
          /\ RespondStep(r) =>
               /\ resp'.status = 200
               /\ WithoutSimulation(resp'.body) =
                     IF req[r].handler = "qr-entrada"
                     THEN [success |-> TRUE, location |-> req[r].op.position,
                           cantidad |-> req[r].op.cantidad]
                     ELSE [success |-> TRUE, posicion |-> req[r].op.position,
                           cantidad |-> req[r].op.cantidad]]_vars

\* C18 as the code has it: the same, the response of an exit differing between
\* the sites in its simulation flag and in the almacen it echoes, the response of
\* an entrance in nothing.
C18_SiteOnlyGatesMessages ==
    [][\A r \in Reqs :
          /\ SiteBlindEffects(r)
          /\ RespondStep(r) =>
               /\ resp'.status = 200
               /\ resp'.body =
                     IF req[r].handler = "qr-entrada"
                     THEN [success |-> TRUE, location |-> req[r].op.position,
                           cantidad |-> req[r].op.cantidad]
                     ELSE [success |-> TRUE, posicion |-> req[r].op.position,
                           cantidad |-> req[r].op.cantidad,
                           almacen |-> req[r].almacen,
                           simulation |-> ~(req[r].almacen = "Vera")]]_vars

\* After an exit of Vera record 1, an entrance of Gandia record 6 has just been
\* answered with slot 1 while the gateway is connected, nothing having been
\* transmitted for it.
C18_Witness ==
    /\ IsOutcomeOf({"qr-entrada"})
    /\ resp.status = 200
    /\ resp.almacen = "Gandia"
    /\ resp.body.location = 1
    /\ resp.pubs = 0
    /\ mqttConnected
    /\ 1 \notin DOMAIN reparto
    /\ reparto[6].location = 1

C20_OnlyEmergencyClears ==
    [][systemState.currentOperation # None =>
          /\ systemState'.currentOperation = None => emergencyRun' > 0
          /\ systemState'.currentOperation # systemState.currentOperation =>
                \/ emergencyRun' > 0
                \/ \E r \in Reqs : StartStep(r)
                \/ \E r \in Reqs : /\ req[r].handler = "qr-event"
                                   /\ req[r].pc = "r_used"
                                   /\ req'[r].pc = "q_update"]_vars

\* A reset has just been answered and the operation is still active, although the
\* AGV has reported its target position, both conveyors and an infrared sensor
\* have reported, and the handler that started it has ended.
C20_Witness ==
    /\ IsOutcomeOf({"reset-emergency"})
    /\ systemState.currentOperation # None
    /\ systemState.agvStatus.ubicacion = systemState.currentOperation.agvTargetPosition
    /\ systemState.conveyor1Status = "Marcha"
    /\ systemState.conveyor2Status = "Marcha"
    /\ systemState.infrared1Status = 1
    /\ \A r \in Reqs : req[r] = Idle
    /\ running

\* C21: whenever currentOperation is set, its phase is picking_from_storage, its
\* type is entrada, salida_particulares or salida_centro, its agvTargetPosition
\* equals its position, and its position is an integer in 1..5.
C21_OperationWellFormed ==
    systemState.currentOperation # None =>
        LET op == systemState.currentOperation
        IN /\ op.phase = "picking_from_storage"
           /\ op.type \in {"entrada", "salida_particulares", "salida_centro"}
           /\ op.agvTargetPosition = op.position
           /\ op.position \in 1..5

\* An exit to the centre is the current operation, stored over an entrance that
\* is still in flight.
C21_Witness ==
    /\ systemState.currentOperation # None
    /\ systemState.currentOperation.type = "salida_centro"
    /\ opStarts = 2
    /\ \E r \in Reqs : Started(r) /\ req[r].op # None /\ req[r].op.type = "entrada"

\* The state apart from systemState is as before, nothing is handed to the
\* gateway, and the server goes on handling messages.
StatusMessageFrame ==
    /\ reparto' = reparto
    /\ req' = req
    /\ mqttConnected' = mqttConnected
    /\ outbox' = <<>>
    /\ running'

\* C22: a conveyor-1, conveyor-2, infrared-1, infrared-2 or AGV status message
\* updates only its own field of systemState (the conveyor status to the raw
\* text, the infrared status to the parsed integer, agvStatus to the reported
\* location and state; nothing for an AGV message that is not JSON), leaves the
\* ledger and the handlers in flight as they are, and the server keeps handling
\* messages afterwards.
C22_StatusMessagesOnlyUpdateField ==
    [][/\ \A messageStr \in ConveyorTexts :
            /\ MqttConveyor1(messageStr) =>
                  /\ systemState' = [systemState EXCEPT !.conveyor1Status = messageStr]
                  /\ StatusMessageFrame
            /\ MqttConveyor2(messageStr) =>
                  /\ systemState' = [systemState EXCEPT !.conveyor2Status = messageStr]
                  /\ StatusMessageFrame
       /\ \A messageStr \in {"0", "1"} :
            /\ MqttInfrared1(messageStr) =>
                  /\ systemState' = [systemState EXCEPT
                                        !.infrared1Status = IF messageStr = "0" THEN 0 ELSE 1]
                  /\ StatusMessageFrame
            /\ MqttInfrared2(messageStr) =>
                  /\ systemState' = [systemState EXCEPT
                                        !.infrared2Status = IF messageStr = "0" THEN 0 ELSE 1]
                  /\ StatusMessageFrame
       /\ \A payload \in TelemetryAgvPayloads :
            MqttAgv(payload) =>
               /\ systemState' = IF payload.json
                                 THEN [systemState EXCEPT
                                          !.agvStatus = [ubicacion |-> payload.ubicacion,
                                                         estado |-> payload.estado]]
                                 ELSE systemState
               /\ StatusMessageFrame]_vars

\* C23: while emergencyStop is true (from an emergency-stop message until a
\* successful reset) currentOperation is empty and no operation directive is
\* handed to the gateway, also by handlers that were in flight when the
\* emergency-stop message arrived.
C23_EmergencyOverridesStarts ==
    systemState.emergencyStop =>
        /\ systemState.currentOperation = None
        /\ \A i \in 1..Len(outbox) : outbox[i].topic # "PR2A1/acciones/directriz"

\* C24: under any interleaving of exit requests a ledger record gives rise to at
\* most one successful exit: no two exit handlers have both had their directive
\* transmitted for the same record id, and no two success responses are given
\* for the same record id.
C24_OneExitPerRecord ==
    [][/\ \A r, q \in Reqs :
            ( /\ r # q
              /\ req[r].handler \in ExitHandlers
              /\ req[q].handler \in ExitHandlers
              /\ req[r].id = req[q].id )
            => ~(req[r].pubs >= 1 /\ req[q].pubs >= 1)
       /\ ( /\ IsOutcomeOf(ExitHandlers)
            /\ resp.status = 200
            /\ resp' # None
            /\ resp'.handler \in ExitHandlers
            /\ resp'.status = 200 )
          => resp'.id # resp.id]_vars

\* C25: whenever currentOperation is set, pendingBoxes equals its quantity,
\* whichever handler stored it and whatever operation came before.
C25_PendingBoxesIsQuantity ==
    systemState.currentOperation # None =>
        systemState.pendingBoxes = systemState.currentOperation.cantidad

\* C26: whenever currentOperation is empty, pendingBoxes is 0.
C26_IdleMeansNoBoxes ==
    systemState.currentOperation = None => systemState.pendingBoxes = 0

\* Two emergency stops in a row have emptied currentOperation while the entrance
\* that stored 12 pending boxes is still in flight, the gateway disconnected.
C26_Witness ==
    /\ systemState.currentOperation = None
    /\ systemState.pendingBoxes = 0
    /\ emergencyRun = 2
    /\ ~mqttConnected
    /\ \E r \in Reqs : Started(r) /\ req[r].handler = "qr-entrada" /\ req[r].boxes = 12

\* C27: for the same ledger and the same record id, an entrance started by a QR
\* message does what the HTTP entrance does: it stores the operation and the
\* pendingBoxes the HTTP entrance would store (lowest free slot, the record's
\* stored quantity or 12), hands the same directive to the gateway and makes the
\* same ledger write.
C27_QrEntranceAsHttpEntrance ==
    [][\A r \in Reqs :
          (req[r].handler = "qr-event" /\ ~Falsy(req[r].id)) =>
             /\ (req[r].pc = "r_used" /\ req'[r].pc = "q_update") =>
                   LET row == reparto[req[r].id]
                       slot == Lowest(FreeSlots(reparto, row.almacen))
                   IN /\ systemState'.currentOperation =
                            ExpectedOperation("qr-entrada", row, slot)
                      /\ systemState'.pendingBoxes = ExpectedPendingBoxes("qr-entrada", row)
                      /\ outbox' = IF row.almacen = "Vera" /\ mqttConnected
                                   THEN <<ExpectedDirectriz("qr-entrada", row, slot)>>
                                   ELSE <<>>
             /\ (req[r].pc = "q_update" /\ req'[r].pc = "r_update") =>
                   reparto' = [reparto EXCEPT
                                  ![req[r].id].location = req[r].op.position,
                                  ![req[r].id].timestamp_recepcion = NOW]]_vars

====
